---- MODULE Spec2Model ----
(***************************************************************************)
(* firma_digital_rsa/firma_rsa.py: a linear script that generates an RSA   *)
(* key pair, signs a message with RSA-PSS over SHA-256, verifies the       *)
(* signature against the original message and against a tampered message,  *)
(* and narrates every step on standard output.                             *)
(*                                                                         *)
(* The calls into the `cryptography` package are modelled by RSA           *)
(* arithmetic on a scaled-down modulus (ModelKeyBits instead of 2048 bits, *)
(* a HashBits-wide digest instead of 256 bits).  The arithmetic is real:   *)
(* sign raises an encoded message to the private exponent, verify raises   *)
(* the signature to the public exponent 65537 and re-checks the encoding.  *)
(***************************************************************************)
EXTENDS Integers, Sequences, FiniteSets, TLC

\* ------------------------------------------------------------------ bounds
\* bit length of the generated modulus (key_size, scaled down from 2048)
ModelKeyBits == 8
\* width of a digest in bits (scaled down from the 256 bits of SHA-256)
HashBits == 4
\* the primes the key generator draws from lie in MinPrime..MaxPrime
MinPrime == 7
MaxPrime == 31

\* ------------------------------------------------------- integer helpers
RECURSIVE Pow2(_)
Pow2(k) == IF k = 0 THEN 1 ELSE 2 * Pow2(k - 1)

RECURSIVE BitLength(_)
BitLength(n) == IF n = 0 THEN 0 ELSE 1 + BitLength(n \div 2)

\* bitwise exclusive or of two naturals
XorFn[a \in Nat, b \in Nat] ==
    IF a = 0 THEN b
    ELSE IF b = 0 THEN a
    ELSE (((a % 2) + (b % 2)) % 2) + 2 * XorFn[a \div 2, b \div 2]

Xor(a, b) == XorFn[a, b]

\* b^x mod n by repeated squaring
ModExpFn[b \in Nat, x \in Nat, n \in Nat] ==
    IF x = 0 THEN 1 % n
    ELSE ((ModExpFn[b, x \div 2, n] ^ 2) * (IF x % 2 = 1 THEN b % n ELSE 1)) % n

ModExp(b, x, n) == ModExpFn[b, x, n]

RECURSIVE Gcd(_, _)
Gcd(a, b) == IF b = 0 THEN a ELSE Gcd(b, a % b)

Lcm(a, b) == (a * b) \div Gcd(a, b)

IsPrime(n) == n > 1 /\ \A k \in 2..(n - 1) : n % k # 0

Primes == {n \in MinPrime..MaxPrime : IsPrime(n)}

\* ------------------------------------------------------ the script's data
\* line 29: public_exponent=65537
public_exponent == 65537

\* line 40: b"Este es el mensaje que quiero firmar digitalmente."
MESSAGE ==
    <<69, 115, 116, 101, 32, 101, 115, 32, 101, 108, 32, 109, 101, 110, 115,
      97, 106, 101, 32, 113, 117, 101, 32, 113, 117, 105, 101, 114, 111, 32,
      102, 105, 114, 109, 97, 114, 32, 100, 105, 103, 105, 116, 97, 108, 109,
      101, 110, 116, 101, 46>>

\* line 81: b"Este es un mensaje modificado."
MESSAGE_ALTERADO ==
    <<69, 115, 116, 101, 32, 101, 115, 32, 117, 110, 32, 109, 101, 110, 115,
      97, 106, 101, 32, 109, 111, 100, 105, 102, 105, 99, 97, 100, 111, 46>>

\* --------------------------------------------- the cryptographic library
\* hashes.SHA256(): a HashBits-wide rolling digest of a byte sequence.  Any
\* other algorithm name selects a different digest function.
\* The digest is the polynomial  iv*mult^len + data[1]*mult^(len-1) + ... +
\* data[len]  modulo 2^HashBits, evaluated by halving the byte range.
PolyHash[mult \in Nat, data \in Seq(Nat), lo \in Nat, hi \in Nat] ==
    IF lo > hi THEN 0
    ELSE IF lo = hi THEN data[lo] % Pow2(HashBits)
    ELSE (PolyHash[mult, data, lo, (lo + hi) \div 2]
            * ModExp(mult, hi - ((lo + hi) \div 2), Pow2(HashBits))
            + PolyHash[mult, data, ((lo + hi) \div 2) + 1, hi]) % Pow2(HashBits)

HashWith(mult, iv, data) ==
    (iv * ModExp(mult, Len(data), Pow2(HashBits)) + PolyHash[mult, data, 1, Len(data)])
        % Pow2(HashBits)

Hash(algorithm, data) ==
    IF algorithm = "SHA256" THEN HashWith(31, 7, data) ELSE HashWith(29, 5, data)

\* padding.MGF1(hash): a mask of `bits` bits derived from the seed
MGF1(algorithm, seed, bits) == Hash(algorithm, <<seed, 0>>) % Pow2(bits)

\* the three call sites each build PSS(mgf=MGF1(SHA256()), salt_length=MAX_LENGTH)
PSS(mgf_hash, salt_length) ==
    [scheme |-> "PSS", mgf |-> "MGF1", mgf_hash |-> mgf_hash, salt_length |-> salt_length]

\* width of the salt: MAX_LENGTH uses all that the encoded message leaves free
SaltBits(pad, emBits) ==
    IF pad.salt_length = "MAX_LENGTH" THEN emBits - HashBits ELSE 1

\* EMSA-PSS-ENCODE: EM = maskedDB || H, H = Hash(mHash || salt),
\* maskedDB = salt XOR MGF1(H)
PSSEncode(msg, salt, pad, algorithm, emBits) ==
    LET mHash == Hash(algorithm, msg)
        H == Hash(algorithm, <<mHash, salt>>)
        maskedDB == Xor(salt, MGF1(pad.mgf_hash, H, SaltBits(pad, emBits)))
    IN  maskedDB * Pow2(HashBits) + H

\* EMSA-PSS-VERIFY: recover the salt from maskedDB and recompute H
PSSVerify(msg, em, pad, algorithm, emBits) ==
    LET mHash == Hash(algorithm, msg)
        H == em % Pow2(HashBits)
        maskedDB == em \div Pow2(HashBits)
        salt == Xor(maskedDB, MGF1(pad.mgf_hash, H, SaltBits(pad, emBits)))
    IN  /\ em < Pow2(emBits)
        /\ maskedDB < Pow2(SaltBits(pad, emBits))
        /\ Hash(algorithm, <<mHash, salt>>) = H

\* rsa.generate_private_key(public_exponent, key_size): every private key the
\* generator can return
PrivateKeys(e, key_size) ==
    {[p |-> p, q |-> q, n |-> p * q, e |-> e,
      d |-> CHOOSE d \in 1..Lcm(p - 1, q - 1) : (d * e) % Lcm(p - 1, q - 1) = 1] :
        <<p, q>> \in {pq \in Primes \X Primes :
                        /\ pq[1] # pq[2]
                        /\ BitLength(pq[1] * pq[2]) = key_size
                        /\ Gcd(e, Lcm(pq[1] - 1, pq[2] - 1)) = 1}}

\* private_key.public_key()
PublicKeyOf(priv) == [n |-> priv.n, e |-> priv.e]

\* the salts private_key.sign may draw for a key and padding
Salts(priv, pad) == 0..(Pow2(SaltBits(pad, BitLength(priv.n) - 1)) - 1)

\* private_key.sign(data, padding, algorithm) with the salt it drew
RSASign(priv, msg, pad, algorithm, salt) ==
    ModExp(PSSEncode(msg, salt, pad, algorithm, BitLength(priv.n) - 1), priv.d, priv.n)

\* public_key.verify(signature, data, padding, algorithm): TRUE when the call
\* returns, FALSE when it raises InvalidSignature
RSAVerify(pub, sig, msg, pad, algorithm) ==
    /\ sig \in 0..(pub.n - 1)
    /\ PSSVerify(msg, ModExp(sig, pub.e, pub.n), pad, algorithm, BitLength(pub.n) - 1)

\* ------------------------------------------------------------ exceptions
\* what a call into the library can raise besides InvalidSignature (all of
\* them derive from Exception)
LibraryFaults == {"UnsupportedAlgorithm", "ValueError", "MemoryError"}

\* the classes that `except Exception` matches
ExceptionClasses == LibraryFaults \cup {"InvalidSignature"}

\* a handler that names the one documented error: except InvalidSignature
CaughtOriginalOnlyInvalid(kind) == kind = "InvalidSignature"

\* line 76: except Exception as e
CaughtOriginal(kind) == kind \in ExceptionClasses

\* a handler that names the one documented error: except InvalidSignature
CaughtTamperedOnlyInvalid(kind) == kind = "InvalidSignature"

\* line 96: except Exception as e
CaughtTampered(kind) == kind \in ExceptionClasses

\* --------------------------------------------------------- printed lines
MsgInicio == "Iniciando el proceso de firma digital con RSA..."
MsgClaves == "Par de claves RSA (privada y publica) generado con exito."
MsgMensaje == "Mensaje original:"
MsgFirma == "Firma digital creada (primeros 30 bytes para referencia):"
MsgVerificada == "Firma verificada con exito. El mensaje es autentico y no ha sido alterado."
MsgError == "ERROR: La firma no es valida."
MsgIntento == "--- Intentando verificar la firma con un mensaje ALTERADO:"
MsgAdvertencia == "Advertencia! La firma ES VALIDA para el mensaje alterado."
\* the rejection of the tampered message reported with the text of line 77
MsgAlertaSameAsError == "ERROR: La firma no es valida."

MsgAlerta == "Alerta: La firma es INVALIDA para el mensaje alterado."
MsgErrorEspecifico == "Error especifico:"
MsgCompletado == "Proceso de firma y verificacion digital con RSA completado."

\* one print call: the fixed text and the value interpolated into it
Line(text, arg) == [text |-> text, arg |-> arg]

\* ------------------------------------------------------------------ state
VARIABLES
    pc,                \* the program point of the script
    private_key,       \* line 28
    public_key,        \* line 34
    message,           \* line 40
    signature,         \* line 50
    message_alterado,  \* line 81
    out,               \* standard output: the sequence of printed lines
    calls,             \* the calls made into the library, with their arguments
    raised,            \* per verification: what the verify call raised
    uncaught           \* the exception that terminated the run, if any

vars == <<pc, private_key, public_key, message, signature, message_alterado,
          out, calls, raised, uncaught>>

NoKey == [p |-> 0, q |-> 0, n |-> 0, e |-> 0, d |-> 0]
NoPublicKey == [n |-> 0, e |-> 0]
NoSignature == -1
NoException == [kind |-> "none", at |-> "none"]

Init ==
    /\ pc = "INIT"
    /\ private_key = NoKey
    /\ public_key = NoPublicKey
    /\ message = <<>>
    /\ signature = NoSignature
    /\ message_alterado = <<>>
    /\ out = <<>>
    /\ calls = <<>>
    /\ raised = [original |-> "pending", tampered |-> "pending"]
    /\ uncaught = NoException

\* ------------------------------------------------- the library call sites
NoPadding == [scheme |-> "none", mgf |-> "none", mgf_hash |-> "none", salt_length |-> "none"]

\* lines 28-32
GenerateCall ==
    [op |-> "generate_private_key", key |-> NoPublicKey, signature |-> NoSignature,
     data |-> <<>>, padding |-> NoPadding, algorithm |-> "none"]

\* lines 50-57
SignCall ==
    [op |-> "sign", key |-> PublicKeyOf(private_key), signature |-> NoSignature,
     data |-> message, padding |-> PSS("SHA256", "MAX_LENGTH"), algorithm |-> "SHA256"]

\* lines 66-74
VerifyOriginalCall ==
    [op |-> "verify", key |-> public_key, signature |-> signature,
     data |-> message, padding |-> PSS("SHA256", "MAX_LENGTH"), algorithm |-> "SHA256"]

\* the second verification handed the original message again
VerifyTamperedCallSameMessage ==
    [op |-> "verify", key |-> public_key, signature |-> signature,
     data |-> message, padding |-> PSS("SHA256", "MAX_LENGTH"), algorithm |-> "SHA256"]

\* the second verification with a salt length other than the signer's
VerifyTamperedCallOtherSalt ==
    [op |-> "verify", key |-> public_key, signature |-> signature,
     data |-> message_alterado, padding |-> PSS("SHA256", "DIGEST_LENGTH"),
     algorithm |-> "SHA256"]

\* lines 85-93
VerifyTamperedCall ==
    [op |-> "verify", key |-> public_key, signature |-> signature,
     data |-> message_alterado, padding |-> PSS("SHA256", "MAX_LENGTH"),
     algorithm |-> "SHA256"]

\* what a verify call raises: the injected fault, else the arithmetic's verdict
VerifyOutcome(call, fault) ==
    IF fault # "none" THEN fault
    ELSE IF RSAVerify(call.key, call.signature, call.data, call.padding, call.algorithm)
         THEN "none"
         ELSE "InvalidSignature"

\* ---------------------------------------------------------------- actions
\* the public key taken from a second, independently generated key pair
GenerateKeysCrossPaired ==
    /\ pc = "INIT"
    /\ \E priv \in PrivateKeys(public_exponent, ModelKeyBits) :
          \E other \in PrivateKeys(public_exponent, ModelKeyBits) :
             /\ other.n # priv.n
             /\ private_key' = priv
             /\ public_key' = PublicKeyOf(other)
    /\ calls' = Append(calls, GenerateCall)
    /\ out' = out \o <<Line(MsgInicio, <<>>), Line(MsgClaves, <<>>)>>
    /\ pc' = "KEYS_GENERATED"
    /\ UNCHANGED <<message, signature, message_alterado, raised, uncaught>>

\* lines 22-36, the key generator returns
GenerateKeys ==
    /\ pc = "INIT"
    /\ \E priv \in PrivateKeys(public_exponent, ModelKeyBits) :
          /\ private_key' = priv
          /\ public_key' = PublicKeyOf(priv)
    /\ calls' = Append(calls, GenerateCall)
    /\ out' = out \o <<Line(MsgInicio, <<>>), Line(MsgClaves, <<>>)>>
    /\ pc' = "KEYS_GENERATED"
    /\ UNCHANGED <<message, signature, message_alterado, raised, uncaught>>

\* lines 22-32, the key generator raises: nothing catches it
GenerateKeysRaises ==
    /\ pc = "INIT"
    /\ \E kind \in LibraryFaults :
          uncaught' = [kind |-> kind, at |-> "generate_private_key"]
    /\ calls' = Append(calls, GenerateCall)
    /\ out' = Append(out, Line(MsgInicio, <<>>))
    /\ pc' = "CRASHED"
    /\ UNCHANGED <<private_key, public_key, message, signature, message_alterado, raised>>

\* lines 40-41
CreateMessage ==
    /\ pc = "KEYS_GENERATED"
    /\ message' = MESSAGE
    /\ out' = Append(out, Line(MsgMensaje, MESSAGE))
    /\ pc' = "MESSAGE_CREATED"
    /\ UNCHANGED <<private_key, public_key, signature, message_alterado, calls,
                   raised, uncaught>>

\* lines 50-59, sign returns a signature made with a fresh random salt
SignMessage ==
    /\ pc = "MESSAGE_CREATED"
    /\ \E salt \in Salts(private_key, SignCall.padding) :
          LET sig == RSASign(private_key, SignCall.data, SignCall.padding,
                             SignCall.algorithm, salt)
          IN  /\ signature' = sig
              /\ out' = Append(out, Line(MsgFirma, <<sig>>))
    /\ calls' = Append(calls, SignCall)
    /\ pc' = "MESSAGE_SIGNED"
    /\ UNCHANGED <<private_key, public_key, message, message_alterado, raised, uncaught>>

\* sign raises and the script carries on without a signature
SignMessageSwallows ==
    /\ pc = "MESSAGE_CREATED"
    /\ \E kind \in LibraryFaults : uncaught' = [kind |-> kind, at |-> "sign"]
    /\ calls' = Append(calls, SignCall)
    /\ pc' = "MESSAGE_SIGNED"
    /\ UNCHANGED <<private_key, public_key, message, signature, message_alterado,
                   out, raised>>

\* lines 50-57, sign raises: nothing catches it
SignMessageRaises ==
    /\ pc = "MESSAGE_CREATED"
    /\ \E kind \in LibraryFaults : uncaught' = [kind |-> kind, at |-> "sign"]
    /\ calls' = Append(calls, SignCall)
    /\ pc' = "CRASHED"
    /\ UNCHANGED <<private_key, public_key, message, signature, message_alterado,
                   out, raised>>

\* a verification that discards the signature when it fails
VerifyOriginalClobbers(faults) ==
    /\ pc = "MESSAGE_SIGNED"
    /\ \E fault \in faults \cup {"none"} :
          LET kind == VerifyOutcome(VerifyOriginalCall, fault)
          IN  /\ raised' = [raised EXCEPT !.original = kind]
              /\ signature' = IF kind = "none" THEN signature ELSE 0
              /\ out' = Append(out, Line(IF kind = "none" THEN MsgVerificada ELSE MsgError,
                                         <<>>))
    /\ pc' = "VERIFIED_ORIGINAL"
    /\ calls' = Append(calls, VerifyOriginalCall)
    /\ UNCHANGED <<private_key, public_key, message, message_alterado, uncaught>>

\* lines 65-77, with the faults the library may raise at this call
VerifyOriginalWith(faults) ==
    /\ pc = "MESSAGE_SIGNED"
    /\ \E fault \in faults \cup {"none"} :
          LET kind == VerifyOutcome(VerifyOriginalCall, fault)
          IN  /\ raised' = [raised EXCEPT !.original = kind]
              /\ IF kind = "none"
                 THEN /\ out' = Append(out, Line(MsgVerificada, <<>>))
                      /\ pc' = "VERIFIED_ORIGINAL"
                      /\ UNCHANGED uncaught
                 ELSE IF CaughtOriginal(kind)
                 THEN /\ out' = Append(out, Line(MsgError, <<kind>>))
                      /\ pc' = "VERIFIED_ORIGINAL"
                      /\ UNCHANGED uncaught
                 ELSE /\ uncaught' = [kind |-> kind, at |-> "verify_original"]
                      /\ pc' = "CRASHED"
                      /\ UNCHANGED out
    /\ calls' = Append(calls, VerifyOriginalCall)
    /\ UNCHANGED <<private_key, public_key, message, signature, message_alterado>>

VerifyOriginal == VerifyOriginalWith(LibraryFaults)

\* lines 81-82
PrepareTampered ==
    /\ pc = "VERIFIED_ORIGINAL"
    /\ message_alterado' = MESSAGE_ALTERADO
    /\ out' = Append(out, Line(MsgIntento, MESSAGE_ALTERADO))
    /\ pc' = "TAMPERED_PREPARED"
    /\ UNCHANGED <<private_key, public_key, message, signature, calls, raised, uncaught>>

\* lines 84-99, with the faults the library may raise at this call
VerifyTamperedWith(faults) ==
    /\ pc = "TAMPERED_PREPARED"
    /\ \E fault \in faults \cup {"none"} :
          LET kind == VerifyOutcome(VerifyTamperedCall, fault)
          IN  /\ raised' = [raised EXCEPT !.tampered = kind]
              /\ IF kind = "none"
                 THEN /\ out' = Append(out, Line(MsgAdvertencia, <<>>))
                      /\ pc' = "VERIFIED_TAMPERED"
                      /\ UNCHANGED uncaught
                 ELSE IF CaughtTampered(kind)
                 THEN /\ out' = out \o <<Line(MsgAlerta, <<>>),
                                         Line(MsgErrorEspecifico, <<kind>>)>>
                      /\ pc' = "VERIFIED_TAMPERED"
                      /\ UNCHANGED uncaught
                 ELSE /\ uncaught' = [kind |-> kind, at |-> "verify_tampered"]
                      /\ pc' = "CRASHED"
                      /\ UNCHANGED out
    /\ calls' = Append(calls, VerifyTamperedCall)
    /\ UNCHANGED <<private_key, public_key, message, signature, message_alterado>>

VerifyTampered == VerifyTamperedWith(LibraryFaults)

\* the completion message printed right after the first verification
CompleteEarly ==
    /\ pc = "VERIFIED_ORIGINAL"
    /\ out' = Append(out, Line(MsgCompletado, <<>>))
    /\ pc' = "DONE"
    /\ UNCHANGED <<private_key, public_key, message, signature, message_alterado,
                   calls, raised, uncaught>>

\* the script blocked before its last line
CompleteWaits ==
    /\ pc = "VERIFIED_TAMPERED"
    /\ UNCHANGED vars

\* line 101
Complete ==
    /\ pc = "VERIFIED_TAMPERED"
    /\ out' = Append(out, Line(MsgCompletado, <<>>))
    /\ pc' = "DONE"
    /\ UNCHANGED <<private_key, public_key, message, signature, message_alterado,
                   calls, raised, uncaught>>

Next ==
    \/ GenerateKeys
    \/ GenerateKeysRaises
    \/ CreateMessage
    \/ SignMessage
    \/ SignMessageRaises
    \/ VerifyOriginal
    \/ PrepareTampered
    \/ VerifyTampered
    \/ Complete

\* every run of the script, the library free to raise at any call
Spec == Init /\ [][Next]_vars

\* the script runs each statement to its end: no step is left waiting
LiveSpec == Spec /\ WF_vars(Next)

\* the runs in which every library call honours its contract: it raises only
\* what its arithmetic decides
VerifyOriginalNominal == VerifyOriginalWith({})

VerifyTamperedNominal == VerifyTamperedWith({})

NextNominal ==
    \/ GenerateKeys
    \/ CreateMessage
    \/ SignMessage
    \/ VerifyOriginalNominal
    \/ PrepareTampered
    \/ VerifyTamperedNominal
    \/ Complete

SpecNominal == Init /\ [][NextNominal]_vars


\* ------------------------------------------------------------- properties
Texts(lines) == [i \in 1..Len(lines) |-> lines[i].text]

Printed(text) == \E i \in 1..Len(out) : out[i].text = text

Count(text) == Cardinality({i \in 1..Len(out) : out[i].text = text})

IsPrefix(s, t) == Len(s) <= Len(t) /\ \A i \in 1..Len(s) : s[i] = t[i]

Ops(log) == [i \in 1..Len(log) |-> log[i].op]

\* the position of a program point in the script
Rank(point) ==
    CASE point = "INIT" -> 0
      [] point = "KEYS_GENERATED" -> 1
      [] point = "MESSAGE_CREATED" -> 2
      [] point = "MESSAGE_SIGNED" -> 3
      [] point = "VERIFIED_ORIGINAL" -> 4
      [] point = "TAMPERED_PREPARED" -> 5
      [] point = "VERIFIED_TAMPERED" -> 6
      [] point = "DONE" -> 7
      [] OTHER -> 8

CallOrder == <<"generate_private_key", "sign", "verify", "verify">>

\* the library calls that have returned or raised once the script is at `point`
CallsBy(point) ==
    CASE point \in {"INIT"} -> 0
      [] point \in {"KEYS_GENERATED", "MESSAGE_CREATED"} -> 1
      [] point \in {"MESSAGE_SIGNED"} -> 2
      [] point \in {"VERIFIED_ORIGINAL", "TAMPERED_PREPARED"} -> 3
      [] OTHER -> 4

OriginalRaised == raised.original \notin {"pending", "none"}

TamperedRaised == raised.tampered \notin {"pending", "none"}

\* C1: every step of a run moves the script to the next program point of the
\* fixed order INIT, KEYS_GENERATED, MESSAGE_SIGNED, VERIFIED_ORIGINAL,
\* VERIFIED_TAMPERED, DONE (or ends the run on an uncaught error); the library
\* is called in the order generate, sign, verify, verify, each call once, and
\* the completion message is printed last and only at DONE.
C1_FixedOrder ==
    [][/\ pc' = "CRASHED" \/ Rank(pc') = Rank(pc) + 1
       /\ IsPrefix(Ops(calls'), CallOrder)
       /\ pc' # "CRASHED" => Len(calls') = CallsBy(pc')
       /\ Printed(MsgCompletado)' <=> pc' = "DONE"
       /\ pc' = "DONE" => /\ out'[Len(out')].text = MsgCompletado
                           /\ Count(MsgCompletado)' = 1]_vars

C1_Witness == pc = "DONE" /\ Ops(calls) = CallOrder

\* C2: when the library honours its contract, the verification of the original
\* message returns (the success message is printed) and the verification of
\* "Este es un mensaje modificado." with the same signature and the same
\* public key raises InvalidSignature (the rejection message is printed).
C2_EndToEnd ==
    /\ Rank(pc) >= Rank("VERIFIED_ORIGINAL") =>
          /\ raised.original = "none"
          /\ Printed(MsgVerificada) /\ ~Printed(MsgError)
          /\ calls[3].data = MESSAGE
          /\ calls[3].signature = signature
    /\ Rank(pc) >= Rank("VERIFIED_TAMPERED") =>
          /\ raised.tampered = "InvalidSignature"
          /\ Printed(MsgAlerta) /\ ~Printed(MsgAdvertencia)
          /\ calls[4].data = MESSAGE_ALTERADO
          /\ calls[4].signature = calls[3].signature
          /\ calls[4].key = calls[3].key

C2_Witness ==
    pc = "DONE" /\ raised.original = "none" /\ raised.tampered = "InvalidSignature"

\* C3: whenever the verify call on the original message raises, the error
\* diagnostic is printed and the run is not ended: it goes on to verify the
\* tampered message and to print the completion message.
C3_OriginalFailureNotFatal ==
    /\ [](OriginalRaised => Printed(MsgError) /\ pc # "CRASHED")
    /\ OriginalRaised ~> (pc = "DONE" /\ Len(calls) = 4 /\ Printed(MsgCompletado))

C3_Witness == pc = "DONE" /\ OriginalRaised /\ Printed(MsgError)

\* C4: what a verification raises is caught and printed as a diagnostic; what
\* key generation or signing raises is not caught: the run ends there, with no
\* later call, no later line of output and no further step.
C4_Propagation ==
    /\ OriginalRaised => Printed(MsgError) /\ uncaught.at # "verify_original"
    /\ TamperedRaised => Printed(MsgAlerta) /\ uncaught.at # "verify_tampered"
    /\ pc = "CRASHED" <=> uncaught # NoException
    /\ pc = "CRASHED" =>
          /\ uncaught.at \in {"generate_private_key", "sign"}
          /\ calls[Len(calls)].op = uncaught.at
          /\ raised = [original |-> "pending", tampered |-> "pending"]
          /\ uncaught.at = "generate_private_key" => Texts(out) = <<MsgInicio>>
          /\ uncaught.at = "sign" => Texts(out) = <<MsgInicio, MsgClaves, MsgMensaje>>
          /\ ~ENABLED Next

C4_Witness == pc = "CRASHED" /\ uncaught.at = "sign"

\* C5: once generated, the key pair is never replaced; the public key is the
\* one derived from the private key; the signing call and both verification
\* calls use that one pair; at most one key pair is generated in a run.
C5_NoCrossPairing ==
    [][/\ pc # "INIT" => UNCHANGED <<private_key, public_key>>
       /\ public_key' = PublicKeyOf(private_key')
       /\ \A i \in 1..Len(calls') :
             calls'[i].op \in {"sign", "verify"} =>
                /\ calls'[i].key = PublicKeyOf(private_key')
                /\ calls'[i].key = public_key'
       /\ Cardinality({i \in 1..Len(calls') : calls'[i].op = "generate_private_key"}) <= 1]_vars

C5_Witness ==
    /\ pc = "DONE"
    /\ private_key # NoKey
    /\ calls[3].key = public_key
    /\ calls[4].key = public_key

\* C6: each verification step prints exactly one outcome message, the four
\* outcome messages are pairwise different, and which of them is in the output
\* tells which case occurred at each verification.
C6_DistinctOutcomeMessages ==
    /\ Cardinality({MsgVerificada, MsgError, MsgAdvertencia, MsgAlerta}) = 4
    /\ Count(MsgVerificada) + Count(MsgError) = IF raised.original = "pending" THEN 0 ELSE 1
    /\ Count(MsgAdvertencia) + Count(MsgAlerta) = IF raised.tampered = "pending" THEN 0 ELSE 1
    /\ Printed(MsgVerificada) <=> raised.original = "none"
    /\ Printed(MsgError) <=> OriginalRaised
    /\ Printed(MsgAdvertencia) <=> raised.tampered = "none"
    /\ Printed(MsgAlerta) <=> TamperedRaised

C6_Witness ==
    /\ pc = "DONE"
    /\ OriginalRaised /\ Count(MsgError) = 1
    /\ TamperedRaised /\ Count(MsgAlerta) = 1

\* C7: the signing call and both verification calls are made with PSS, MGF1
\* over SHA-256, maximal salt length, and the SHA-256 digest; no verification
\* uses a scheme other than the one of the signing call.
C7_SameScheme ==
    \A i \in 1..Len(calls) :
        calls[i].op \in {"sign", "verify"} =>
           /\ calls[i].padding = [scheme |-> "PSS", mgf |-> "MGF1", mgf_hash |-> "SHA256",
                                  salt_length |-> "MAX_LENGTH"]
           /\ calls[i].algorithm = "SHA256"
           /\ calls[i].padding = calls[2].padding
           /\ calls[i].algorithm = calls[2].algorithm

C7_Witness ==
    /\ Len(calls) = 4
    /\ calls[4].op = "verify"
    /\ calls[4].padding = calls[2].padding

\* C8: every run ends: it reaches DONE, or it stops on an uncaught error of key
\* generation or signing.
C8_Terminates ==
    <>(\/ pc = "DONE"
       \/ pc = "CRASHED" /\ uncaught.at \in {"generate_private_key", "sign"})

C8_Witness == pc = "DONE" /\ Printed(MsgCompletado) /\ uncaught = NoException

LastCall == calls[Len(calls)]

SignatureLine == out[4]

OriginalOutcome == raised.original

\* C9: a verification step, whether verify returns or raises, leaves the key
\* pair, both messages and the signature as they were; each verify call is
\* handed the signature that the signing step printed, and the second
\* verification does not rewrite the outcome of the first.
C9_VerifyIsPure ==
    [][(pc = "MESSAGE_SIGNED" \/ pc = "TAMPERED_PREPARED") =>
          (/\ UNCHANGED <<private_key, public_key, message, message_alterado, signature>>
           /\ LastCall'.op = "verify"
           /\ LastCall'.signature = signature'
           /\ SignatureLine' = Line(MsgFirma, <<signature>>)
           /\ (pc = "TAMPERED_PREPARED" => OriginalOutcome' = OriginalOutcome))]_vars

C9_Witness ==
    /\ pc = "VERIFIED_TAMPERED"
    /\ OriginalRaised
    /\ calls[4].signature = signature
    /\ out[4].arg = <<signature>>

\* the lines of a complete run, given whether each verify call returned
ExpectedTexts(originalReturned, tamperedReturned) ==
    <<MsgInicio, MsgClaves, MsgMensaje, MsgFirma,
      IF originalReturned THEN MsgVerificada ELSE MsgError, MsgIntento>>
    \o (IF tamperedReturned THEN <<MsgAdvertencia>> ELSE <<MsgAlerta, MsgErrorEspecifico>>)
    \o <<MsgCompletado>>

\* C10: whatever a verify call raises is caught, none of it ends the run, and
\* the lines a complete run prints depend only on whether each verify call
\* raised, not on what it raised.
C10_UniformHandling ==
    /\ uncaught.at \notin {"verify_original", "verify_tampered"}
    /\ OriginalRaised \/ TamperedRaised => pc # "CRASHED"
    /\ Rank(pc) >= Rank("VERIFIED_ORIGINAL") /\ pc # "CRASHED" =>
          out[5].text = IF raised.original = "none" THEN MsgVerificada ELSE MsgError
    /\ pc = "DONE" =>
          Texts(out) = ExpectedTexts(raised.original = "none", raised.tampered = "none")

C10_Witness ==
    /\ pc = "DONE"
    /\ raised.original = "MemoryError"
    /\ raised.tampered = "ValueError"

====
